---- MODULE Spec2Model ----
(***************************************************************************)
(* Model of lambda/lambda_function.py: the alarm-driven remediation        *)
(* handler.  One invocation of lambda_handler is a process that walks      *)
(* through the handler's statements; the external calls (ec2.describe_tags,*)
(* ssm.send_command, http.request) succeed or raise nondeterministically.  *)
(*                                                                         *)
(* Python values are encoded as follows: a dict is a function from key     *)
(* strings to values, a list is a sequence, None is the string "None", a   *)
(* tag value (on which str.lower is called) is a sequence of one-character *)
(* strings, an aware datetime is its instant in microseconds.              *)
(***************************************************************************)
EXTENDS Integers, Sequences, FiniteSets, TLC

VARIABLES
    DISCORD_WEBHOOK,    \* module global, line 8
    SSM_DOCUMENT,       \* module global, line 9
    event,              \* event[i]: the event argument of invocation i
    resTags,            \* resTags[i]: the tags EC2 holds for the resource looked up
    clock,              \* clock[i]: the instant datetime.now() reads, microseconds
    pc,                 \* pc[i]: position of invocation i in lambda_handler
    state_reason,       \* local, line 19
    event_time,         \* local, line 23 (instant, microseconds)
    downtime_duration,  \* local, line 24
    instance_id,        \* local, line 28
    tags,               \* local, line 32
    is_maintenance,     \* local, line 33
    status,             \* the dict returned, "None" while nothing is returned
    fault,              \* the exception that left the handler, "None" if none
    calls,              \* calls[i]: the external calls attempted, in order
    discord             \* discord[i]: the calls of send_discord, in order

vars == <<DISCORD_WEBHOOK, SSM_DOCUMENT, event, resTags, clock, pc,
          state_reason, event_time, downtime_duration, instance_id, tags,
          is_maintenance, status, fault, calls, discord>>

locals == <<state_reason, event_time, downtime_duration, instance_id, tags,
            is_maintenance>>

inputs == <<DISCORD_WEBHOOK, SSM_DOCUMENT, event, resTags, clock>>

-----------------------------------------------------------------------------
(* Bounds of the model *)

MaxTags == 2      \* longest tag list returned by describe_tags
MaxSec  == 2      \* largest whole second of an event time or clock reading
NumInv  == 2      \* concurrent invocations

-----------------------------------------------------------------------------
(* Python values *)

None == "None"

EmptyDict == <<>>

\* dict.get(key, default)
Get(d, k, default) == IF k \in DOMAIN d THEN d[k] ELSE default

\* truth value of an optional string: None and "" are falsy
Falsy(s) == s = None \/ s = ""

LowerCase ==
    ("T" :> "t") @@ ("R" :> "r") @@ ("U" :> "u") @@ ("E" :> "e") @@
    ("F" :> "f") @@ ("A" :> "a") @@ ("L" :> "l") @@ ("S" :> "s")

\* str.lower(), character by character
str_lower(s) ==
    [k \in 1..Len(s) |-> IF s[k] \in DOMAIN LowerCase THEN LowerCase[s[k]] ELSE s[k]]

-----------------------------------------------------------------------------
(* Timestamps.  An ISO-8601 time string is [s, us, suffix]: the wall-clock *)
(* reading in whole seconds and microseconds, and the zone suffix.         *)

US == 1000000     \* microseconds per second (timedelta.total_seconds)

\* str.replace('Z', '+00:00') on the zone suffix
replace_Z(t) == [t EXCEPT !.suffix = IF @ = "Z" THEN "+00:00" ELSE @]

\* UTC offsets datetime.fromisoformat accepts, in seconds
IsoOffset == ("+00:00" :> 0) @@ ("+00:01" :> 60) @@ ("-00:01" :> (0 - 60))

\* datetime.fromisoformat raises ValueError on any other suffix
IsoValid(t) == t.suffix \in DOMAIN IsoOffset

\* datetime.fromisoformat: the instant of an aware datetime, microseconds
fromisoformat(t) == (t.s - IsoOffset[t.suffix]) * US + t.us

\* mutant: floor division in place of int()
IntSeconds_floor(d) == d \div US

\* int(x): truncation toward zero of microseconds to whole seconds
IntSeconds(d) == IF d >= 0 THEN d \div US ELSE 0 - ((0 - d) \div US)

-----------------------------------------------------------------------------
(* Context extraction, lines 18-28 *)

ReasonOf(e) ==
    Get(Get(Get(e, "detail", EmptyDict), "state", EmptyDict), "reason", "N/A")

MetricsOf(e) ==
    Get(Get(Get(e, "detail", EmptyDict), "configuration", EmptyDict),
        "metrics", <<EmptyDict>>)

InstanceIdOf(e) ==
    Get(Get(Get(Get(MetricsOf(e)[1], "metricStat", EmptyDict),
                "metric", EmptyDict), "dimensions", EmptyDict),
        "InstanceId", "Unknown")

\* mutant: the tag value is compared without str.lower()
IsMaintenance_exact(ts) ==
    \E k \in 1..Len(ts) :
        /\ ts[k].Key = "Maintenance"
        /\ ts[k].Value = <<"t", "r", "u", "e">>

\* mutant: the tag key is compared ignoring its first letter's case
IsMaintenance_anykey(ts) ==
    \E k \in 1..Len(ts) :
        /\ ts[k].Key \in {"Maintenance", "maintenance"}
        /\ str_lower(ts[k].Value) = <<"t", "r", "u", "e">>

\* the maintenance check, line 33
IsMaintenance(ts) ==
    \E k \in 1..Len(ts) :
        /\ ts[k].Key = "Maintenance"
        /\ str_lower(ts[k].Value) = <<"t", "r", "u", "e">>

-----------------------------------------------------------------------------
(* Notification contents *)

SkipTitle    == "Maintenance Mode Detected"
SuccessTitle == "Auto-Remediation Triggered"
SkipColor    == 16776960
SuccessColor == 15158332

\* the f-strings of lines 37 and 49-51, as their literal and interpolated
\* segments (markdown markup and line breaks left out of the literals)
SkipDescription(reason) ==
    <<"Reason: ", reason,
      " Action: Automation skipped to avoid interference.">>

SuccessDescription(reason, seconds, document) ==
    <<"Cause of Downtime: ", reason,
      " Time Since Detection: ", seconds,
      " seconds Remediation: Triggered ", document, " successfully.">>

\* the webhook body, lines 59-71 (the emission timestamp is left out)
Payload(id, title, description, color) ==
    [username |-> "Cloud Janitor",
     embeds   |-> << [title       |-> title,
                      description |-> description,
                      color       |-> color,
                      fields      |-> << [name |-> "Instance ID", value |-> id, inline |-> TRUE],
                                         [name |-> "Region", value |-> "ap-southeast-1", inline |-> TRUE] >>] >>]

-----------------------------------------------------------------------------
(* Inputs *)

Tag(k, v) == [Key |-> k, Value |-> v]

TagValues ==
    { <<"t","r","u","e">>, <<"T","r","u","e">>, <<"T","R","U","E">>,
      <<"f","a","l","s","e">>, <<>> }

TagKeys == {"Maintenance", "maintenance", "Name"}

TagPool == {Tag(k, v) : k \in TagKeys, v \in TagValues}

SeqsUpTo(S, n) == UNION {[1..m -> S] : m \in 0..n}

TagLists == SeqsUpTo(TagPool, MaxTags)

SampleTagLists ==
    { <<>>,
      <<Tag("Maintenance", <<"T","r","u","e">>)>>,
      <<Tag("Maintenance", <<"f","a","l","s","e">>)>>,
      <<Tag("maintenance", <<"t","r","u","e">>)>>,
      <<Tag("Name", <<"T","R","U","E">>), Tag("Maintenance", <<"T","R","U","E">>)>> }

DictOpt(k, Vs) == {EmptyDict} \cup {(k :> v) : v \in Vs}

DimensionsVals == DictOpt("InstanceId", {"i-abc123", "i-def456"})
MetricVals     == DictOpt("dimensions", DimensionsVals)
MetricStatVals == DictOpt("metric", MetricVals)
MetricsEntries == DictOpt("metricStat", MetricStatVals)
MetricsVals    == {<<>>} \cup {<<m>> : m \in MetricsEntries}
ConfigVals     == DictOpt("metrics", MetricsVals)
StateVals      == DictOpt("reason", {"Instance reachability check failed"})

DetailVals ==
    {s @@ c : s \in DictOpt("state", StateVals),
              c \in DictOpt("configuration", ConfigVals)}

TimeStrings(Secs, Fracs, Suffixes) ==
    {[s |-> a, us |-> b, suffix |-> z] : a \in Secs, b \in Fracs, z \in Suffixes}

Instants(Secs, Fracs) == {a * US + b : a \in Secs, b \in Fracs}

Events(Details, Times) ==
    {d @@ t : d \in DictOpt("detail", Details), t \in DictOpt("time", Times)}

WellFormedEvent ==
    ("time" :> [s |-> 0, us |-> 0, suffix |-> "Z"]) @@
    ("detail" :>
        (("state" :> ("reason" :> "Instance reachability check failed")) @@
         ("configuration" :> ("metrics" :>
            << ("metricStat" :> ("metric" :> ("dimensions" :>
                    ("InstanceId" :> "i-abc123")))) >>))))

MalformedEvents ==
    { ("detail" :> EmptyDict),
      ("time" :> [s |-> 0, us |-> 0, suffix |-> "?"]),
      ("time" :> [s |-> 0, us |-> 0, suffix |-> "Z"]) @@
         ("detail" :> ("configuration" :> ("metrics" :> <<>>))) }

OtherEvent ==
    ("time" :> [s |-> 1, us |-> 0, suffix |-> "+00:00"]) @@
    ("detail" :>
        (("state" :> ("reason" :> "CPU credit balance exhausted")) @@
         ("configuration" :> ("metrics" :>
            << ("metricStat" :> ("metric" :> ("dimensions" :>
                    ("InstanceId" :> "i-def456")))) >>))))

Webhooks  == {None, "", "https://discord.example/api/webhooks/1"}
Documents == {"Restart-Service"}

-----------------------------------------------------------------------------
(* Initial states: the invocations I, each with its event, the tags of its *)
(* resource and its clock reading, and the process-wide configuration.     *)

InitWith(I, Es, Ts, Ns, Ws) ==
    /\ DISCORD_WEBHOOK \in Ws
    /\ SSM_DOCUMENT \in Documents
    /\ event \in [I -> Es]
    /\ resTags \in [I -> Ts]
    /\ clock \in [I -> Ns]
    /\ pc = [i \in I |-> "reason"]
    /\ state_reason = [i \in I |-> None]
    /\ event_time = [i \in I |-> 0]
    /\ downtime_duration = [i \in I |-> 0]
    /\ instance_id = [i \in I |-> None]
    /\ tags = [i \in I |-> <<>>]
    /\ is_maintenance = [i \in I |-> FALSE]
    /\ status = [i \in I |-> None]
    /\ fault = [i \in I |-> None]
    /\ calls = [i \in I |-> <<>>]
    /\ discord = [i \in I |-> <<>>]

Invocations == DOMAIN pc

\* one invocation, every event shape
Init ==
    InitWith({1},
             Events(DetailVals,
                    TimeStrings({1}, {0, 500000}, {"Z", "+00:00", "?"})),
             SampleTagLists, Instants({0, MaxSec}, {0}), Webhooks)

\* one invocation, every tag list up to MaxTags
InitTags ==
    InitWith({1}, {WellFormedEvent} \cup MalformedEvents, TagLists,
             {US}, Webhooks)

\* one invocation, every pair of event time and clock reading
InitTime ==
    InitWith({1},
             Events({WellFormedEvent["detail"]},
                    TimeStrings(0..MaxSec, {0, 1, 500000, 999999},
                                {"Z", "+00:00", "+00:01", "-00:01", "?"}))
                \cup MalformedEvents,
             {<<>>, <<Tag("Maintenance", <<"T","r","u","e">>)>>},
             Instants(0..MaxSec, {0, 1, 500000, 999999}),
             {"https://discord.example/api/webhooks/1"})

\* NumInv invocations in flight at once
InitConc ==
    InitWith(1..NumInv, {WellFormedEvent, OtherEvent} \cup MalformedEvents,
             {<<>>, <<Tag("Maintenance", <<"T","r","u","e">>)>>},
             {2 * US + 500000},
             {"https://discord.example/api/webhooks/1"})

-----------------------------------------------------------------------------
(* lambda_handler, statement by statement *)

Raise(i, exc) ==
    /\ pc' = [pc EXCEPT ![i] = "fault"]
    /\ fault' = [fault EXCEPT ![i] = exc]

\* lines 18-19
ParseReason(i) ==
    /\ pc[i] = "reason"
    /\ state_reason' = [state_reason EXCEPT ![i] = ReasonOf(event[i])]
    /\ pc' = [pc EXCEPT ![i] = "time"]
    /\ UNCHANGED <<inputs, event_time, downtime_duration, instance_id, tags,
                   is_maintenance, status, fault, calls, discord>>

\* lines 22-24
ParseTime(i) ==
    /\ pc[i] = "time"
    /\ IF "time" \notin DOMAIN event[i]
         THEN /\ Raise(i, "AttributeError")
              /\ UNCHANGED <<event_time, downtime_duration>>
         ELSE IF ~IsoValid(replace_Z(event[i]["time"]))
         THEN /\ Raise(i, "ValueError")
              /\ UNCHANGED <<event_time, downtime_duration>>
         ELSE LET t == fromisoformat(replace_Z(event[i]["time"])) IN
              /\ event_time' = [event_time EXCEPT ![i] = t]
              /\ downtime_duration' =
                    [downtime_duration EXCEPT ![i] = IntSeconds(clock[i] - t)]
              /\ pc' = [pc EXCEPT ![i] = "instance"]
              /\ UNCHANGED fault
    /\ UNCHANGED <<inputs, state_reason, instance_id, tags, is_maintenance,
                   status, calls, discord>>

\* mutant: instance_id kept in a variable every invocation reads
ParseInstance_shared(i) ==
    /\ pc[i] = "instance"
    /\ IF Len(MetricsOf(event[i])) = 0
         THEN /\ Raise(i, "IndexError")
              /\ UNCHANGED instance_id
         ELSE /\ instance_id' = [j \in Invocations |-> InstanceIdOf(event[i])]
              /\ pc' = [pc EXCEPT ![i] = "tags"]
              /\ UNCHANGED fault
    /\ UNCHANGED <<inputs, state_reason, event_time, downtime_duration, tags,
                   is_maintenance, status, calls, discord>>

\* lines 27-28
ParseInstance(i) ==
    /\ pc[i] = "instance"
    /\ IF Len(MetricsOf(event[i])) = 0
         THEN /\ Raise(i, "IndexError")
              /\ UNCHANGED instance_id
         ELSE /\ instance_id' = [instance_id EXCEPT ![i] = InstanceIdOf(event[i])]
              /\ pc' = [pc EXCEPT ![i] = "tags"]
              /\ UNCHANGED fault
    /\ UNCHANGED <<inputs, state_reason, event_time, downtime_duration, tags,
                   is_maintenance, status, calls, discord>>

\* mutant: a failed tag lookup is tried a second time
DescribeTags_retry(i) ==
    /\ pc[i] = "tags"
    /\ \E ok \in BOOLEAN :
        /\ calls' = [calls EXCEPT ![i] =
                Append(@, [api |-> "describe_tags", target |-> instance_id[i],
                           ok |-> ok])]
        /\ IF ok
             THEN /\ tags' = [tags EXCEPT ![i] = resTags[i]]
                  /\ is_maintenance' =
                        [is_maintenance EXCEPT ![i] = IsMaintenance(resTags[i])]
                  /\ pc' = [pc EXCEPT ![i] =
                        IF IsMaintenance(resTags[i]) THEN "skip" ELSE "command"]
                  /\ UNCHANGED fault
             ELSE /\ IF calls[i] = <<>>
                       THEN UNCHANGED <<pc, fault>>
                       ELSE Raise(i, "ClientError")
                  /\ UNCHANGED <<tags, is_maintenance>>
    /\ UNCHANGED <<inputs, state_reason, event_time, downtime_duration,
                   instance_id, status, discord>>

\* lines 32-35: the tag lookup, the maintenance check and the branch
DescribeTags(i) ==
    /\ pc[i] = "tags"
    /\ \E ok \in BOOLEAN :
        /\ calls' = [calls EXCEPT ![i] =
                Append(@, [api |-> "describe_tags", target |-> instance_id[i],
                           ok |-> ok])]
        /\ IF ok
             THEN /\ tags' = [tags EXCEPT ![i] = resTags[i]]
                  /\ is_maintenance' =
                        [is_maintenance EXCEPT ![i] = IsMaintenance(resTags[i])]
                  /\ pc' = [pc EXCEPT ![i] =
                        IF IsMaintenance(resTags[i]) THEN "skip" ELSE "command"]
                  /\ UNCHANGED fault
             ELSE /\ Raise(i, "ClientError")
                  /\ UNCHANGED <<tags, is_maintenance>>
    /\ UNCHANGED <<inputs, state_reason, event_time, downtime_duration,
                   instance_id, status, discord>>

\* mutant: the guard of line 58 is missing
send_discord_unguarded(i, title, description, color, ok, result, next) ==
    /\ discord' = [discord EXCEPT ![i] =
            Append(@, [instance_id |-> instance_id[i], title |-> title,
                       description |-> description, color |-> color])]
    /\ calls' = [calls EXCEPT ![i] =
            Append(@, [api |-> "http.request", target |-> DISCORD_WEBHOOK,
                       body |-> Payload(instance_id[i], title, description, color),
                       ok |-> ok])]
    /\ IF ok
         THEN /\ status' = [status EXCEPT ![i] = result]
              /\ pc' = [pc EXCEPT ![i] = next]
              /\ UNCHANGED fault
         ELSE /\ Raise(i, "HTTPError")
              /\ UNCHANGED status

\* send_discord, lines 57-73; when it returns, the caller returns `result'
\* (or, with result None, goes on at `next')
send_discord(i, title, description, color, ok, result, next) ==
    /\ discord' = [discord EXCEPT ![i] =
            Append(@, [instance_id |-> instance_id[i], title |-> title,
                       description |-> description, color |-> color])]
    /\ IF Falsy(DISCORD_WEBHOOK)
         THEN /\ status' = [status EXCEPT ![i] = result]
              /\ pc' = [pc EXCEPT ![i] = next]
              /\ UNCHANGED <<calls, fault>>
         ELSE /\ calls' = [calls EXCEPT ![i] =
                    Append(@, [api |-> "http.request", target |-> DISCORD_WEBHOOK,
                               body |-> Payload(instance_id[i], title, description, color),
                               ok |-> ok])]
              /\ IF ok
                   THEN /\ status' = [status EXCEPT ![i] = result]
                        /\ pc' = [pc EXCEPT ![i] = next]
                        /\ UNCHANGED fault
                   ELSE /\ Raise(i, "HTTPError")
                        /\ UNCHANGED status

\* mutant: the return of line 38 is missing
NotifySkip_fallthrough(i) ==
    /\ pc[i] = "skip"
    /\ \E ok \in BOOLEAN :
        send_discord(i, SkipTitle, SkipDescription(state_reason[i]), SkipColor,
                     ok, None, "command")
    /\ UNCHANGED <<inputs, locals>>

\* lines 36-38
NotifySkip(i) ==
    /\ pc[i] = "skip"
    /\ \E ok \in BOOLEAN :
        send_discord(i, SkipTitle, SkipDescription(state_reason[i]), SkipColor,
                     ok, "skipped", "done")
    /\ UNCHANGED <<inputs, locals>>

\* mutant: a failed dispatch is swallowed and the handler goes on
SendCommand_swallow(i) ==
    /\ pc[i] = "command"
    /\ \E ok \in BOOLEAN :
        /\ calls' = [calls EXCEPT ![i] =
                Append(@, [api |-> "send_command", target |-> instance_id[i],
                           document |-> SSM_DOCUMENT, ok |-> ok])]
        /\ pc' = [pc EXCEPT ![i] = "notify"]
        /\ UNCHANGED fault
    /\ UNCHANGED <<inputs, locals, status, discord>>

\* lines 42-45
SendCommand(i) ==
    /\ pc[i] = "command"
    /\ \E ok \in BOOLEAN :
        /\ calls' = [calls EXCEPT ![i] =
                Append(@, [api |-> "send_command", target |-> instance_id[i],
                           document |-> SSM_DOCUMENT, ok |-> ok])]
        /\ IF ok
             THEN /\ pc' = [pc EXCEPT ![i] = "notify"]
                  /\ UNCHANGED fault
             ELSE Raise(i, "ClientError")
    /\ UNCHANGED <<inputs, locals, status, discord>>

\* lines 48-55
NotifySuccess(i) ==
    /\ pc[i] = "notify"
    /\ \E ok \in BOOLEAN :
        send_discord(i, SuccessTitle,
                     SuccessDescription(state_reason[i], downtime_duration[i],
                                        SSM_DOCUMENT),
                     SuccessColor, ok, "success", "done")
    /\ UNCHANGED <<inputs, locals>>

Next ==
    \E i \in Invocations :
        \/ ParseReason(i)
        \/ ParseTime(i)
        \/ ParseInstance(i)
        \/ DescribeTags(i)
        \/ NotifySkip(i)
        \/ SendCommand(i)
        \/ NotifySuccess(i)

Spec     == Init /\ [][Next]_vars
SpecTags == InitTags /\ [][Next]_vars
SpecTime == InitTime /\ [][Next]_vars
SpecConc == InitConc /\ [][Next]_vars

-----------------------------------------------------------------------------
(* Vocabulary of the properties, stated on the inputs and on the recorded  *)
(* effects, without the handler's own helpers.                             *)

Done(i)     == pc[i] = "done"
Faulted(i)  == pc[i] = "fault"
Finished(i) == Done(i) \/ Faulted(i)

CallsTo(i, api) == {k \in 1..Len(calls[i]) : calls[i][k].api = api}
NoCallFailed(i) == \A k \in 1..Len(calls[i]) : calls[i][k].ok

TagsFetched(i) ==
    \E k \in 1..Len(calls[i]) :
        calls[i][k].api = "describe_tags" /\ calls[i][k].ok

\* a tag value equal to "true" ignoring letter case
IsTrueIgnoringCase(v) ==
    /\ Len(v) = 4
    /\ v[1] \in {"t", "T"}
    /\ v[2] \in {"r", "R"}
    /\ v[3] \in {"u", "U"}
    /\ v[4] \in {"e", "E"}

HasMaintenanceTag(ts) ==
    \E k \in 1..Len(ts) :
        ts[k].Key = "Maintenance" /\ IsTrueIgnoringCase(ts[k].Value)

\* the time field is present and is an ISO-8601 timestamp with a zone
HasTimestamp(e) ==
    /\ "time" \in DOMAIN e
    /\ e["time"].suffix \in {"Z", "+00:00", "+00:01", "-00:01"}

HasEmptyMetrics(e) ==
    /\ "detail" \in DOMAIN e
    /\ "configuration" \in DOMAIN e["detail"]
    /\ "metrics" \in DOMAIN e["detail"]["configuration"]
    /\ Len(e["detail"]["configuration"]["metrics"]) = 0

WellFormed(e) == HasTimestamp(e) /\ ~HasEmptyMetrics(e)

ReasonAbsent(e) ==
    \/ "detail" \notin DOMAIN e
    \/ "state" \notin DOMAIN e["detail"]
    \/ "reason" \notin DOMAIN e["detail"]["state"]

InstanceAbsent(e) ==
    \/ "detail" \notin DOMAIN e
    \/ "configuration" \notin DOMAIN e["detail"]
    \/ "metrics" \notin DOMAIN e["detail"]["configuration"]
    \/ Len(e["detail"]["configuration"]["metrics"]) = 0
    \/ "metricStat" \notin DOMAIN e["detail"]["configuration"]["metrics"][1]
    \/ "metric" \notin DOMAIN e["detail"]["configuration"]["metrics"][1]["metricStat"]
    \/ "dimensions" \notin
          DOMAIN e["detail"]["configuration"]["metrics"][1]["metricStat"]["metric"]
    \/ "InstanceId" \notin
          DOMAIN e["detail"]["configuration"]["metrics"][1]["metricStat"]["metric"]["dimensions"]

GivenReason(e) ==
    IF ReasonAbsent(e) THEN "N/A" ELSE e["detail"]["state"]["reason"]

GivenInstance(e) ==
    IF InstanceAbsent(e) THEN "Unknown"
    ELSE e["detail"]["configuration"]["metrics"][1]["metricStat"]["metric"]["dimensions"]["InstanceId"]

\* the instant an ISO-8601 time string denotes, microseconds
GivenInstant(t) ==
    t.s * US + t.us -
    (CASE t.suffix = "+00:01" -> 60 * US
       [] t.suffix = "-00:01" -> 0 - 60 * US
       [] OTHER -> 0)

\* now - eventTime of invocation i, microseconds
Elapsed(i) == clock[i] - GivenInstant(event[i]["time"])

TimeParsed(i) ==
    pc[i] \in {"instance", "tags", "skip", "command", "notify", "done"}
       \/ (Faulted(i) /\ fault[i] \notin {"AttributeError", "ValueError"})

ExpectedStatus(i) ==
    IF HasMaintenanceTag(resTags[i]) THEN "skipped" ELSE "success"

-----------------------------------------------------------------------------
(* C1: for a well-formed event and no failing external call, a finished    *)
(* invocation has returned and has called send_discord exactly once, with  *)
(* the skip notification or with the success notification; at no point of  *)
(* any invocation are there two calls of send_discord.                     *)
C1_OneNotification ==
    \A i \in Invocations :
        /\ Len(discord[i]) <= 1
        /\ (Finished(i) /\ WellFormed(event[i]) /\ NoCallFailed(i)) =>
              /\ Done(i)
              /\ Len(discord[i]) = 1
              /\ discord[i][1].title \in {SkipTitle, SuccessTitle}
              /\ discord[i][1].title = SkipTitle <=> status[i] = "skipped"

C1_Witness ==
    \E i \in Invocations :
        /\ Done(i) /\ WellFormed(event[i])
        /\ status[i] = "success"
        /\ Len(discord[i]) = 1 /\ discord[i][1].title = SuccessTitle

-----------------------------------------------------------------------------
(* C2, as claimed: with a maintenance tag on the resource the invocation   *)
(* never calls send_command and returns "skipped"; without one and with no *)
(* failing call it calls send_command once, on the extracted instance id,  *)
(* and returns "success".  Read in its most favourable sense: the event is *)
(* well-formed and, for the first half, the tag lookup has succeeded.      *)
C2_Original ==
    \A i \in Invocations :
        IF HasMaintenanceTag(resTags[i])
        THEN /\ CallsTo(i, "send_command") = {}
             /\ (Finished(i) /\ WellFormed(event[i]) /\ TagsFetched(i)) =>
                    status[i] = "skipped"
        ELSE (Finished(i) /\ WellFormed(event[i]) /\ NoCallFailed(i)) =>
                /\ status[i] = "success"
                /\ \E k \in 1..Len(calls[i]) :
                      /\ CallsTo(i, "send_command") = {k}
                      /\ calls[i][k].target = instance_id[i]

(* C2, amended: with a maintenance tag the invocation never calls          *)
(* send_command, and returns "skipped" unless it faults (which it does not *)
(* for a well-formed event when no call fails); without one, for a         *)
(* well-formed event and no failing call, it calls send_command once, on   *)
(* the extracted instance id, with the configured document, and returns    *)
(* "success".                                                              *)
C2_Gate ==
    \A i \in Invocations :
        IF HasMaintenanceTag(resTags[i])
        THEN /\ CallsTo(i, "send_command") = {}
             /\ status[i] \in {None, "skipped"}
             /\ Done(i) => status[i] = "skipped"
             /\ (Finished(i) /\ WellFormed(event[i]) /\ NoCallFailed(i)) => Done(i)
        ELSE /\ status[i] \in {None, "success"}
             /\ (Finished(i) /\ WellFormed(event[i]) /\ NoCallFailed(i)) =>
                  /\ status[i] = "success"
                  /\ \E k \in 1..Len(calls[i]) :
                        /\ CallsTo(i, "send_command") = {k}
                        /\ calls[i][k].target = instance_id[i]
                        /\ calls[i][k].target = GivenInstance(event[i])
                        /\ calls[i][k].document = SSM_DOCUMENT

C2_Witness ==
    \E i \in Invocations :
        /\ Done(i) /\ status[i] = "skipped"
        /\ \E k \in 1..Len(resTags[i]) :
              resTags[i][k] = Tag("Maintenance", <<"T","r","u","e">>)
        /\ CallsTo(i, "send_command") = {}

-----------------------------------------------------------------------------
(* C3: once the tags are fetched, the maintenance check is true exactly    *)
(* when some tag has key "Maintenance" and a value that is "true" up to    *)
(* letter case; so it is false for no tags, for any other value and for a  *)
(* key that differs from "Maintenance" in case only.                       *)
C3_MaintenanceCheck ==
    \A i \in Invocations :
        TagsFetched(i) =>
            /\ tags[i] = resTags[i]
            /\ is_maintenance[i] = HasMaintenanceTag(tags[i])
            /\ tags[i] = <<>> => ~is_maintenance[i]
            /\ (\A k \in 1..Len(tags[i]) : tags[i][k].Key # "Maintenance")
                  => ~is_maintenance[i]
            /\ (\A k \in 1..Len(tags[i]) :
                    tags[i][k].Value \in {<<"f","a","l","s","e">>, <<>>})
                  => ~is_maintenance[i]
            /\ (pc[i] = "skip") => is_maintenance[i]
            /\ (pc[i] = "command") => ~is_maintenance[i]

C3_Witness ==
    \E i \in Invocations :
        /\ TagsFetched(i) /\ is_maintenance[i]
        /\ Len(tags[i]) = 2
        /\ tags[i][1] = Tag("maintenance", <<"t","r","u","e">>)
        /\ tags[i][2] = Tag("Maintenance", <<"T","R","U","E">>)

-----------------------------------------------------------------------------
(* C4: a failing step ends the invocation in a fault: nothing is returned, *)
(* the failed call is the last external call, a malformed event faults     *)
(* before any external call, a failed tag query leaves no dispatch and no  *)
(* notification, a failed dispatch leaves no notification, and a faulted   *)
(* invocation takes no further step.                                       *)
C4_FaultState ==
    \A i \in Invocations :
        /\ Faulted(i) <=> fault[i] # None
        /\ Faulted(i) => status[i] = None
        /\ \A k \in 1..Len(calls[i]) :
              ~calls[i][k].ok => (k = Len(calls[i]) /\ Faulted(i))
        /\ (Finished(i) /\ ~WellFormed(event[i])) =>
              (Faulted(i) /\ calls[i] = <<>> /\ discord[i] = <<>>)
        /\ \A k \in CallsTo(i, "describe_tags") :
              ~calls[i][k].ok =>
                 (CallsTo(i, "send_command") = {} /\ discord[i] = <<>>
                    /\ CallsTo(i, "http.request") = {})
        /\ \A k \in CallsTo(i, "send_command") :
              ~calls[i][k].ok =>
                 (discord[i] = <<>> /\ CallsTo(i, "http.request") = {})

C4_FaultIsFinal ==
    \A i \in Invocations :
        Faulted(i) =>
            /\ pc'[i] = pc[i] /\ fault'[i] = fault[i] /\ status'[i] = status[i]
            /\ calls'[i] = calls[i] /\ discord'[i] = discord[i]

C4_FailLoud == [] C4_FaultState /\ [][C4_FaultIsFinal]_vars

C4_Witness ==
    \E i \in Invocations :
        /\ Faulted(i) /\ fault[i] = "ClientError"
        /\ Len(calls[i]) = 2
        /\ calls[i][2].api = "send_command" /\ ~calls[i][2].ok
        /\ discord[i] = <<>> /\ status[i] = None

-----------------------------------------------------------------------------
(* C5: with no webhook endpoint configured, send_discord makes no network  *)
(* call and does not raise on either path, and the returned status and the *)
(* dispatch are those of the tags alone, as they are with an endpoint.     *)
C5_NoEndpoint ==
    \A i \in Invocations :
        /\ Falsy(DISCORD_WEBHOOK) =>
              /\ CallsTo(i, "http.request") = {}
              /\ fault[i] # "HTTPError"
              /\ Len(discord[i]) = 1 => Done(i)
        /\ Done(i) =>
              /\ status[i] = ExpectedStatus(i)
              /\ (CallsTo(i, "send_command") # {}) <=> (status[i] = "success")

C5_Witness ==
    \E i \in Invocations :
        /\ DISCORD_WEBHOOK = None
        /\ Done(i) /\ status[i] = "skipped"
        /\ Len(discord[i]) = 1 /\ Len(calls[i]) = 1

-----------------------------------------------------------------------------
(* C6, as claimed: extraction never faults on a missing reason or a        *)
(* missing instance id; an absent reason is read as "N/A" and an absent    *)
(* instance id (missing or empty metrics included) as "Unknown".           *)
C6_Defaults ==
    \A i \in Invocations :
        /\ (pc[i] # "reason" /\ ReasonAbsent(event[i])) => state_reason[i] = "N/A"
        /\ (InstanceAbsent(event[i]) /\ HasTimestamp(event[i])) =>
              /\ ~Faulted(i) \/ calls[i] # <<>>
              /\ pc[i] \notin {"reason", "time", "instance"} =>
                    instance_id[i] = "Unknown"

-----------------------------------------------------------------------------
(* C7, as claimed: downtime_duration is floor(now - eventTime) in whole    *)
(* seconds for every pair of times, negative differences included.         *)
C7_Original ==
    \A i \in Invocations :
        TimeParsed(i) => downtime_duration[i] = Elapsed(i) \div US

(* C7, amended: downtime_duration is now - eventTime truncated toward zero *)
(* to whole seconds: the floor when the event time is not later than the   *)
(* invocation time, and the ceiling when it is later; that integer is the  *)
(* one in the success notification's description.                          *)
C7_Truncation ==
    \A i \in Invocations :
        TimeParsed(i) =>
            LET d == downtime_duration[i] IN
            /\ event_time[i] = GivenInstant(event[i]["time"])
            /\ Elapsed(i) >= 0 => (d * US <= Elapsed(i) /\ Elapsed(i) < (d + 1) * US)
            /\ Elapsed(i) < 0 => ((d - 1) * US < Elapsed(i) /\ Elapsed(i) <= d * US)
            /\ Elapsed(i) >= 0 => d = Elapsed(i) \div US
            /\ \A k \in 1..Len(discord[i]) :
                  discord[i][k].title = SuccessTitle =>
                      discord[i][k].description[4] = d
            /\ \A k \in CallsTo(i, "http.request") :
                  calls[i][k].body.embeds[1].title = SuccessTitle =>
                      calls[i][k].body.embeds[1].description[4] = d

C7_Witness ==
    \E i \in Invocations :
        /\ Done(i) /\ status[i] = "success"
        /\ Elapsed(i) = 0 - 1500000
        /\ downtime_duration[i] = 0 - 1
        /\ discord[i][1].description[4] = 0 - 1

-----------------------------------------------------------------------------
(* C8: within an invocation each external call is attempted at most once,  *)
(* and only in the order tag lookup, command dispatch, webhook post, each  *)
(* call after the first following a call that succeeded.                   *)
ApiRank == ("describe_tags" :> 1) @@ ("send_command" :> 2) @@ ("http.request" :> 3)

C8_NoRetry ==
    \A i \in Invocations :
        /\ \A api \in DOMAIN ApiRank : Cardinality(CallsTo(i, api)) <= 1
        /\ \A k, l \in 1..Len(calls[i]) :
              k < l => (ApiRank[calls[i][k].api] < ApiRank[calls[i][l].api]
                          /\ calls[i][k].ok)
        /\ calls[i] # <<>> => calls[i][1].api = "describe_tags"
        /\ \A k \in CallsTo(i, "http.request") :
              calls[i][k].body.embeds[1].title = SuccessTitle =>
                  (k = 3 /\ calls[i][2].api = "send_command")

C8_Witness ==
    \E i \in Invocations :
        /\ Done(i) /\ Len(calls[i]) = 3
        /\ calls[i][1].api = "describe_tags"
        /\ calls[i][2].api = "send_command"
        /\ calls[i][3].api = "http.request"

-----------------------------------------------------------------------------
(* C9: under every interleaving, an invocation that returns has dispatched *)
(* to the instance of its own event, notified with the contents of its own *)
(* event and returned the status of its own resource's tags; a step of one *)
(* invocation changes nothing of another, and the process-wide             *)
(* configuration is never written.                                         *)
C9_OwnResult ==
    \A i \in Invocations :
        Done(i) =>
            /\ status[i] = ExpectedStatus(i)
            /\ \A k \in CallsTo(i, "send_command") :
                  calls[i][k].target = GivenInstance(event[i])
            /\ \A k \in CallsTo(i, "describe_tags") :
                  calls[i][k].target = GivenInstance(event[i])
            /\ Len(discord[i]) = 1
            /\ discord[i][1].instance_id = GivenInstance(event[i])
            /\ discord[i][1].description[2] = GivenReason(event[i])
            /\ \A k \in CallsTo(i, "http.request") :
                  /\ calls[i][k].body.embeds[1].fields[1].value = GivenInstance(event[i])
                  /\ calls[i][k].body.embeds[1].description = discord[i][1].description
            /\ status[i] = "success" =>
                  discord[i][1].description =
                      SuccessDescription(GivenReason(event[i]),
                                         IF Elapsed(i) >= 0
                                           THEN Elapsed(i) \div US
                                           ELSE 0 - ((0 - Elapsed(i)) \div US),
                                         SSM_DOCUMENT)

C9_NoSharedWrite ==
    /\ DISCORD_WEBHOOK' = DISCORD_WEBHOOK
    /\ SSM_DOCUMENT' = SSM_DOCUMENT
    /\ \A i, j \in Invocations :
          (i # j /\ pc'[i] # pc[i]) =>
              /\ pc'[j] = pc[j] /\ status'[j] = status[j] /\ fault'[j] = fault[j]
              /\ calls'[j] = calls[j] /\ discord'[j] = discord[j]
              /\ state_reason'[j] = state_reason[j]
              /\ instance_id'[j] = instance_id[j]
              /\ downtime_duration'[j] = downtime_duration[j]
              /\ tags'[j] = tags[j] /\ is_maintenance'[j] = is_maintenance[j]

C9_Independent == [] C9_OwnResult /\ [][C9_NoSharedWrite]_vars

C9_Witness ==
    \E i, j \in Invocations :
        /\ i # j /\ Done(i) /\ Done(j)
        /\ event[i] # event[j]
        /\ status[i] = "success" /\ status[j] = "skipped"
        /\ calls[i][2].target = "i-abc123"
        /\ discord[j][1].instance_id = "i-def456"

-----------------------------------------------------------------------------
(* C10, as claimed: an event without an instance id is never stopped       *)
(* before an external call: the tag lookup is made for "Unknown" and, with *)
(* no maintenance tag and no failing call, the command is dispatched to    *)
(* "Unknown" and the success notification names "Unknown".                 *)
C10_UnknownProceeds ==
    \A i \in Invocations :
        (InstanceAbsent(event[i]) /\ HasTimestamp(event[i]) /\ Finished(i)) =>
            /\ calls[i] # <<>>
            /\ calls[i][1].api = "describe_tags"
            /\ calls[i][1].target = "Unknown"
            /\ (~HasMaintenanceTag(resTags[i]) /\ NoCallFailed(i)) =>
                  /\ \E k \in CallsTo(i, "send_command") :
                        calls[i][k].target = "Unknown"
                  /\ Len(discord[i]) = 1
                  /\ discord[i][1].title = SuccessTitle
                  /\ discord[i][1].instance_id = "Unknown"

====
